---- MODULE Spec2Model ----
(***************************************************************************)
(* A model of the wine-quality data pipeline: retrying CSV ingestion       *)
(* (ingestion.rs), the transform stages (transformation.rs), the per-row   *)
(* concurrent writer and the read-back (storage.rs), the table bootstrap   *)
(* (seed.rs) and the driving sequence (main.rs).                           *)
(*                                                                         *)
(* The CSV reader and the database are external collaborators: a read      *)
(* either fails or returns a DataFrame, an insert either fails or commits  *)
(* its row, and which of the two happens is an input of the model.         *)
(* Floating-point cells are fixed-point integers in units of 1/Scale.      *)
(***************************************************************************)
EXTENDS Integers, Sequences, FiniteSets, TLC

\* ---------------------------------------------------------------- bounds
MaxRows == 3
MaxRuns == 2
MaxFailures == 3
MaxAttempts == 3
\* Rows of the largest input file beyond the pool's connections.
ExtraRows == 1

\* ------------------------------------------------------ program constants
MainMaxAttempts == 3
PoolSize == 5
Scale == 10000

\* ---------------------------------------------------------------- schema
Columns ==
  << "fixed acidity", "volatile acidity", "citric acid", "residual sugar",
     "chlorides", "free sulfur dioxide", "total sulfur dioxide", "density",
     "pH", "sulphates", "alcohol", "quality" >>

ColumnSet == { Columns[k] : k \in 1..Len(Columns) }

IntColumns == { "free sulfur dioxide", "total sulfur dioxide", "quality" }

\* The dtype store_data asks of each column.
DeclaredType(c) == IF c \in IntColumns THEN "i32" ELSE "f64"

\* The columns clean_data fills.
CleanedColumns == << "fixed acidity", "volatile acidity" >>

\* ------------------------------------------------------------ option cells
None == << >>
Some(v) == << v >>
IsNull(x) == x = None
Unwrap(x) == x[1]

\* ------------------------------------------------------------- DataFrames
\* A DataFrame: its height and, per column name, a dtype and the cells.
NoDf == [ height |-> 0, cols |-> << >> ]

HasColumn(d, c) == c \in DOMAIN d.cols

\* The two data rows of the CSV the ingestion tests write; a float cell
\* 7.4 is 74000, an integer cell is itself.
SampleRow1 ==
  [ c \in ColumnSet |->
      CASE c = "fixed acidity" -> 74000
        [] c = "volatile acidity" -> 7000
        [] c = "citric acid" -> 0
        [] c = "residual sugar" -> 19000
        [] c = "chlorides" -> 760
        [] c = "free sulfur dioxide" -> 11
        [] c = "total sulfur dioxide" -> 34
        [] c = "density" -> 9978
        [] c = "pH" -> 35100
        [] c = "sulphates" -> 5600
        [] c = "alcohol" -> 94000
        [] OTHER -> 5 ]

SampleRow2 ==
  [ c \in ColumnSet |->
      CASE c = "fixed acidity" -> 78000
        [] c = "volatile acidity" -> 8800
        [] c = "citric acid" -> 0
        [] c = "residual sugar" -> 26000
        [] c = "chlorides" -> 980
        [] c = "free sulfur dioxide" -> 25
        [] c = "total sulfur dioxide" -> 67
        [] c = "density" -> 9968
        [] c = "pH" -> 32000
        [] c = "sulphates" -> 6800
        [] c = "alcohol" -> 98000
        [] OTHER -> 5 ]

\* Row r of an input file: the sample rows, repeated with every cell two
\* units larger per repetition.
SampleCell(c, r) ==
  (IF r % 2 = 1 THEN SampleRow1[c] ELSE SampleRow2[c]) + 2 * ((r - 1) \div 2)

\* Where an input file has an empty cell: nowhere (row 0) or one cell.
NullableColumns == { "fixed acidity", "citric acid", "quality" }

NullPlaces(h) == { [col |-> "fixed acidity", row |-> 0] } \cup
                 [ col : NullableColumns, row : 1..h ]

\* The columns an input file may lack.
MissingChoices == { "", "volatile acidity", "pH" }

\* The DataFrame the reader returns for a file of h rows whose integer
\* columns it typed as intType.
MkStore(h, intType, nullAt, missing) ==
  [ height |-> h,
    cols |-> [ c \in ColumnSet \ { missing } |->
                 [ dtype |-> IF c \in IntColumns THEN intType ELSE "f64",
                   vals |-> [ r \in 1..h |->
                               IF nullAt.col = c /\ nullAt.row = r
                               THEN None ELSE Some(SampleCell(c, r)) ] ] ] ]

\* Where an input file has a negative cell.
NegativeColumns == { "fixed acidity", "residual sugar" }

NegativePlaces(h) == [ col : NegativeColumns, row : 1..h ]

\* The frame d with the cell at place p negated.
WithNegative(d, p) ==
  [ d EXCEPT !.cols[p.col].vals[p.row] = Some(0 - Unwrap(@)) ]

NegativeStores ==
  { WithNegative(MkStore(h, t, [col |-> "fixed acidity", row |-> 0], ""), p) :
      h \in 1..MaxRows, t \in { "i32", "i64" }, p \in NegativePlaces(1) }

\* A file with more rows than the pool has connections.
PoolStore ==
  MkStore(PoolSize + ExtraRows, "i32", [col |-> "fixed acidity", row |-> 0], "")

\* What a successful read may return.  The reader's type inference is the
\* CSV library's, not this repository's: test_ingest_csv pins "quality" of
\* the sample file to i64, store_data asks for i32, so both widths are
\* inputs here, as are files with an empty cell, with a negative cell or
\* without a column.
Stores ==
  { MkStore(h, t, n, m) :
      h \in 0..MaxRows, t \in { "i32", "i64" }, n \in NullPlaces(MaxRows),
      m \in MissingChoices } \cup NegativeStores

\* The DataFrame test_ingest_csv asserts: shape (2, 12), "quality" of
\* dtype i64.
TestCsvStore == MkStore(2, "i64", [col |-> "fixed acidity", row |-> 0], "")

\* -------------------------------------------------------- transformation.rs
RECURSIVE Insert(_, _)
Insert(v, sorted) ==
  IF sorted = << >> THEN << v >>
  ELSE IF v <= Head(sorted) THEN << v >> \o sorted
  ELSE << Head(sorted) >> \o Insert(v, Tail(sorted))

RECURSIVE SortCells(_)
\* The non-null cells of a column, ascending.
SortCells(vals) ==
  IF vals = << >> THEN << >>
  ELSE IF IsNull(Head(vals)) THEN SortCells(Tail(vals))
  ELSE Insert(Unwrap(Head(vals)), SortCells(Tail(vals)))

\* ChunkedArray::median: the middle non-null value, or the mean of the two
\* middle ones; None when every cell is null.  (The input cells are even
\* numbers of units, so the mean of two of them is exact.)
Median(vals) ==
  LET s == SortCells(vals)
      n == Len(s)
  IN IF n = 0 THEN None
     ELSE IF n % 2 = 1 THEN Some(s[(n + 1) \div 2])
     ELSE Some((s[n \div 2] + s[n \div 2 + 1]) \div 2)

Ok(d) == [ ok |-> TRUE, df |-> d, err |-> "" ]
Err(e) == [ ok |-> FALSE, df |-> NoDf, err |-> e ]

median_value(d, column) ==
  IF ~HasColumn(d, column) THEN [ ok |-> FALSE, v |-> 0, err |-> "Error fetching column" ]
  ELSE IF d.cols[column].dtype # "f64"
       THEN [ ok |-> FALSE, v |-> 0, err |-> "Error converting column to f64" ]
  ELSE IF IsNull(Median(d.cols[column].vals))
       THEN [ ok |-> FALSE, v |-> 0, err |-> "Error calculating median" ]
  ELSE [ ok |-> TRUE, v |-> Unwrap(Median(d.cols[column].vals)), err |-> "" ]

\* A fill that overwrites the cells that are not null too.
fill_all(vals, m) == [ r \in DOMAIN vals |-> Some(m) ]

\* col(c).fill_null(lit(m)) on one column.
fill_null(vals, m) ==
  [ r \in DOMAIN vals |-> IF IsNull(vals[r]) THEN Some(m) ELSE vals[r] ]

with_fill(d, column, m) ==
  [ d EXCEPT !.cols[column].vals = fill_null(@, m) ]

clean_data(d) ==
  LET m1 == median_value(d, CleanedColumns[1])
      m2 == median_value(d, CleanedColumns[2])
  IN IF ~m1.ok THEN Err(m1.err)
     ELSE IF ~m2.ok THEN Err(m2.err)
     ELSE Ok(with_fill(with_fill(d, CleanedColumns[1], m1.v), CleanedColumns[2], m2.v))

\* df.lazy().collect() with no expression in between: the frame unchanged.
normalize_data(d) == Ok(d)

\* The frame d with the rows Keep holds of (1-based), in order.
FilterRows(d, Keep(_)) ==
  LET ks == SelectSeq([ r \in 1..d.height |-> r ], Keep)
  IN [ height |-> Len(ks),
       cols |-> [ c \in DOMAIN d.cols |->
                    [ d.cols[c] EXCEPT
                        !.vals = [ k \in 1..Len(ks) |-> d.cols[c].vals[ks[k]] ] ] ] ]

\* A filter that keeps only the rows whose cells are all above zero.
validate_strict(d) ==
  Ok(FilterRows(d, LAMBDA r : \A c \in DOMAIN d.cols :
                     IsNull(d.cols[c].vals[r]) \/ Unwrap(d.cols[c].vals[r]) > 0))

validate_data(d) == Ok(d)

\* ---------------------------------------------------------------- storage.rs
\* Lines 68-81: every column is fetched by name and downcast to its declared
\* dtype before any row is read; the first column that fails ends the call.
RECURSIVE LookupFrom(_, _)
LookupFrom(d, k) ==
  IF k > Len(Columns) THEN ""
  ELSE IF ~HasColumn(d, Columns[k]) THEN "column not found"
  ELSE IF d.cols[Columns[k]].dtype # DeclaredType(Columns[k]) THEN "schema mismatch"
  ELSE LookupFrom(d, k + 1)

LookupColumns(d) == LookupFrom(d, 1)

\* `series.get(i)? as f64` on the two sulfur dioxide columns.
AsF64(n) == n * Scale

\* Lines 85-96: the value bound to the insert for column c of row i (0-based).
FieldValue(d, c, i) ==
  LET v == Unwrap(d.cols[c].vals[i + 1])
  IN IF c \in { "free sulfur dioxide", "total sulfur dioxide" } THEN AsF64(v) ELSE v

\* Lines 85-96: the first column, in extraction order, whose cell of row i
\* is null: its `.context(..)?` ends the call.  0 when there is none.
RECURSIVE FirstNullFrom(_, _, _)
FirstNullFrom(d, i, k) ==
  IF k > Len(Columns) THEN 0
  ELSE IF IsNull(d.cols[Columns[k]].vals[i + 1]) THEN k
  ELSE FirstNullFrom(d, i, k + 1)

FirstNull(d, i) == FirstNullFrom(d, i, 1)

RowFields(d, i) == [ k \in 1..Len(Columns) |-> FieldValue(d, Columns[k], i) ]

\* A task that is given the values of row 0 whatever its row.
NewTaskStale(d, i) ==
  [ row |-> i, fields |-> RowFields(d, 0), st |-> "spawned", result |-> "none" ]

\* tokio::spawn(async move { .. }): a task that owns its row's values.
NewTask(d, i) ==
  [ row |-> i, fields |-> RowFields(d, i), st |-> "spawned", result |-> "none" ]

\* A pool without a limit.
Unbounded(ts) == TRUE

\* The pool hands out at most max_connections connections at a time.
Holding(ts) == { t \in DOMAIN ts : ts[t].st = "executing" }

CanAcquire(ts) == Cardinality(Holding(ts)) < PoolSize

\* What awaiting a JoinHandle yields: Ok(the task's own result) when the task
\* ran to its end.  The task's result, an Err included, is the payload.
JoinOutput(task) == [ join |-> "Ok", output |-> task.result ]

Finished(task) == task.st = "finished"

\* A join that resolves as soon as one handle has.
AnyJoined(ts) == ts = << >> \/ \E t \in DOMAIN ts : Finished(ts[t])

\* try_join_all resolves once every handle has resolved (no handle yields a
\* JoinError here).
JoinReady(ts) == \A t \in DOMAIN ts : Finished(ts[t])

\* `try_join_all(tasks).await?; Ok(())`: the `?` looks at the join results
\* only; the Vec of the tasks' own results is dropped.
JoinResult(ts) ==
  IF \E t \in DOMAIN ts : JoinOutput(ts[t]).join # "Ok" THEN "Err" ELSE "Ok"

\* A committed INSERT: the row joins the table.  run and row say which task
\* of which run wrote it.
InsertRow(tbl, task, run) ==
  Append(tbl, [ fields |-> task.fields, run |-> run, row |-> task.row ])

\* A rejected INSERT that takes the batch with it: the rows the run wrote so
\* far are rolled back.
CommitAllOrNothing(tbl, task, run, ok) ==
  IF ok THEN InsertRow(tbl, task, run)
  ELSE SelectSeq(tbl, LAMBDA p : p.run # run)

\* What one task's `.execute(&pool).await` does to the table: each INSERT is
\* its own statement on its own connection, with no transaction around the
\* batch.
Commit(tbl, task, run, ok) ==
  IF ok THEN InsertRow(tbl, task, run) ELSE tbl

\* The runtime is dropped when main returns: tasks that have not finished
\* are cancelled.
Cancel(ts) ==
  [ t \in DOMAIN ts |->
      IF Finished(ts[t]) THEN ts[t] ELSE [ ts[t] EXCEPT !.st = "cancelled" ] ]

\* ---------------------------------------------------------------- seed.rs
\* DROP TABLE IF EXISTS wine_quality CASCADE
DropTable(tbl) == << >>

\* ------------------------------------------------------------ ingestion.rs
\* Whether the next read of the file fails: the file fails the first
\* failsFirst reads of a call, or all of them.
AttemptFails(pl, made) == pl.permanent \/ made < pl.failsFirst

Plans == [ failsFirst : 0..MaxFailures, permanent : { FALSE } ] \cup
         [ failsFirst : { 0 }, permanent : { TRUE } ]

\* The comparison off by one, either way.
ExhaustedLate(made, max) == made > max

ExhaustedEarly(made, max) == made + 1 >= max

\* Line 60: the loop gives up.
Exhausted(made, max) == made >= max

\* The error of the call's first read kept, whatever read came last.
RetErrFirst(n) == [ kind |-> "Err", context |-> "Max retry attempts reached", cause |-> 1 ]

Pending == [ kind |-> "pending", context |-> "", cause |-> 0 ]
RetOk == [ kind |-> "Ok", context |-> "", cause |-> 0 ]
\* Err(e).context("Max retry attempts reached"), e the error of read `n`.
RetErr(n) == [ kind |-> "Err", context |-> "Max retry attempts reached", cause |-> n ]

\* ------------------------------------------------------------------ state
VARIABLES
  pc,            \* where the driving task is
  caller,        \* "main", or "test" for a direct call of retry_ingest
  runs,          \* executions of main started so far
  env_url,       \* whether DATABASE_URL is set
  plan,          \* how the file behaves during this call of retry_ingest
  max_attempts,  \* retry_ingest's argument
  attempts,      \* retry_ingest's counter
  calls,         \* calls of ingest_csv made by this call of retry_ingest
  sleeps,        \* sleeps made by this call of retry_ingest
  ret,           \* what retry_ingest returned
  df,            \* main's df
  tdf,           \* the frame inside transform_data, then main's transformed_df
  i,             \* store_data's loop index
  tasks,         \* the insert tasks store_data spawned, by spawn order
  stored,        \* what store_data returned
  table,         \* the rows of wine_quality, in commit order
  log,           \* the functions main has called, in order
  failure        \* why main failed

vars ==
  << pc, caller, runs, env_url, plan, max_attempts, attempts, calls, sleeps,
     ret, df, tdf, i, tasks, stored, table, log, failure >>

NoPlan == [ failsFirst |-> 0, permanent |-> FALSE ]
NoFailure == [ stage |-> "", err |-> "" ]

Init ==
  /\ pc = "idle"
  /\ caller = "none"
  /\ runs = 0
  /\ env_url = FALSE
  /\ plan = NoPlan
  /\ max_attempts = 0
  /\ attempts = 0
  /\ calls = 0
  /\ sleeps = 0
  /\ ret = Pending
  /\ df = NoDf
  /\ tdf = NoDf
  /\ i = 0
  /\ tasks = << >>
  /\ stored = "pending"
  /\ table = << >>
  /\ log = << >>
  /\ failure = NoFailure

retryVars == << plan, max_attempts, attempts, calls, sleeps, ret, df >>
storeVars == << i, tasks, stored >>

\* `?` in main: the error leaves main and the later calls never happen.
Fail(stage, err) ==
  /\ pc' = "failed"
  /\ failure' = [ stage |-> stage, err |-> err ]

\* ---------------------------------------------------------------- main.rs
\* A process starts: main loads the environment (line 28) and is about to
\* call run_db_setup.  The file's behaviour during this run is fixed here.
MainStart ==
  /\ pc \in { "idle", "exited" }
  /\ runs < MaxRuns
  /\ \E url \in BOOLEAN, pl \in Plans :
       /\ env_url' = url
       /\ plan' = pl
  /\ pc' = "setup"
  /\ caller' = "main"
  /\ runs' = runs + 1
  /\ max_attempts' = 0
  /\ attempts' = 0
  /\ calls' = 0
  /\ sleeps' = 0
  /\ ret' = Pending
  /\ df' = NoDf
  /\ tdf' = NoDf
  /\ i' = 0
  /\ tasks' = << >>
  /\ stored' = "pending"
  /\ log' = << >>
  /\ failure' = NoFailure
  /\ UNCHANGED table

\* create_connection_pool (storage.rs 35-44): the `expect` panics without
\* DATABASE_URL, the connect may fail.
PoolOutcomes == IF env_url THEN { "ok", "connect failed" } ELSE { "DATABASE_URL must be set" }

\* seed::run_db_setup().await? (main.rs 31, seed.rs 19-48), and on success
\* the call of retry_ingest("data/dataset.csv", 3) begins (main.rs 36).
RunDbSetup ==
  /\ pc = "setup"
  /\ log' = Append(log, "run_db_setup")
  /\ \E o \in PoolOutcomes, drop \in BOOLEAN, create \in BOOLEAN :
       IF o # "ok"
       THEN /\ Fail("setup", o)
            /\ UNCHANGED << table, max_attempts >>
       ELSE IF ~drop
       THEN /\ Fail("setup", "drop failed")
            /\ UNCHANGED << table, max_attempts >>
       ELSE IF ~create
       THEN /\ Fail("setup", "create failed")
            /\ table' = DropTable(table)
            /\ UNCHANGED max_attempts
       ELSE /\ pc' = "ingest"
            /\ table' = DropTable(table)
            /\ max_attempts' = MainMaxAttempts
            /\ UNCHANGED failure
  /\ UNCHANGED << caller, runs, env_url, plan, attempts, calls, sleeps, ret,
                  df, tdf, storeVars >>

\* A direct call retry_ingest(path, n), as the tests of ingestion.rs make.
TestRetryIngest ==
  /\ pc = "idle"
  /\ \E n \in 0..MaxAttempts, pl \in Plans :
       /\ max_attempts' = n
       /\ plan' = pl
  /\ pc' = "ingest"
  /\ caller' = "test"
  /\ UNCHANGED << runs, env_url, attempts, calls, sleeps, ret, df, tdf,
                  storeVars, table, log, failure >>

\* One turn of retry_ingest's loop (ingestion.rs 55-67): ingest_csv is
\* called; Ok returns at once, Err counts the attempt and either gives up
\* or goes to sleep.
IngestAttempt ==
  /\ pc = "ingest"
  /\ calls' = calls + 1
  /\ log' = IF calls = 0 /\ caller = "main" THEN Append(log, "retry_ingest") ELSE log
  /\ \/ /\ ~AttemptFails(plan, calls)
        /\ \E s \in Stores : df' = s
        /\ ret' = RetOk
        /\ pc' = IF caller = "main" THEN "clean" ELSE "returned"
        /\ UNCHANGED << attempts, failure >>
     \/ /\ AttemptFails(plan, calls)
        /\ attempts' = attempts + 1
        /\ IF Exhausted(attempts + 1, max_attempts)
           THEN /\ ret' = RetErr(calls + 1)
                /\ IF caller = "main"
                   THEN Fail("ingest", "Max retry attempts reached")
                   ELSE pc' = "returned" /\ UNCHANGED failure
           ELSE /\ pc' = "sleep"
                /\ UNCHANGED << ret, failure >>
        /\ UNCHANGED df
  /\ UNCHANGED << caller, runs, env_url, plan, max_attempts, sleeps, tdf,
                  storeVars, table >>

\* The loop turning again without the sleep.
SleepSkipped ==
  /\ pc = "sleep"
  /\ pc' = "ingest"
  /\ UNCHANGED << caller, runs, env_url, plan, max_attempts, attempts, calls,
                  sleeps, ret, df, tdf, storeVars, table, log, failure >>

\* std::thread::sleep(1 s), then the loop turns again (ingestion.rs 63-64).
Sleep ==
  /\ pc = "sleep"
  /\ sleeps' = sleeps + 1
  /\ pc' = "ingest"
  /\ UNCHANGED << caller, runs, env_url, plan, max_attempts, attempts, calls,
                  ret, df, tdf, storeVars, table, log, failure >>

\* transform_data, one sub-stage per step (transformation.rs 29-34).
Stage(at, name, r, next) ==
  /\ pc = at
  /\ log' = Append(log, name)
  /\ IF r.ok
     THEN /\ tdf' = r.df
          /\ pc' = next
          /\ UNCHANGED failure
     ELSE /\ Fail("transform", r.err)
          /\ UNCHANGED tdf
  /\ UNCHANGED << caller, runs, env_url, retryVars, storeVars, table >>

Clean == Stage("clean", "clean_data", clean_data(df), "normalize")

\* normalize applied to transform_data's argument instead of clean's output.
NormalizeOnInput == Stage("normalize", "normalize_data", normalize_data(df), "validate")

Normalize == Stage("normalize", "normalize_data", normalize_data(tdf), "validate")

Validate == Stage("validate", "validate_data", validate_data(tdf), "pool")

\* storage::create_connection_pool().await? (main.rs 46).
CreatePool ==
  /\ pc = "pool"
  /\ log' = Append(log, "create_connection_pool")
  /\ \E o \in PoolOutcomes :
       IF o = "ok"
       THEN pc' = "lookup" /\ UNCHANGED failure
       ELSE Fail("write", o)
  /\ UNCHANGED << caller, runs, env_url, retryVars, tdf, storeVars, table >>

\* store_data begins (main.rs 47): the twelve column lookups (68-81).
Lookup ==
  /\ pc = "lookup"
  /\ log' = Append(log, "store_data")
  /\ IF LookupColumns(tdf) = ""
     THEN /\ pc' = "loop"
          /\ UNCHANGED << stored, failure >>
     ELSE /\ stored' = "Err"
          /\ Fail("write", LookupColumns(tdf))
  /\ UNCHANGED << caller, runs, env_url, retryVars, tdf, i, tasks, table >>

\* A loop that passes over a row with a null field and goes on to the next.
LoopSkipsNullRow ==
  /\ pc = "loop"
  /\ IF i >= tdf.height
     THEN /\ pc' = "join"
          /\ UNCHANGED << i, tasks, stored, failure >>
     ELSE IF FirstNull(tdf, i) # 0
     THEN /\ i' = i + 1
          /\ UNCHANGED << pc, tasks, stored, failure >>
     ELSE /\ tasks' = Append(tasks, NewTask(tdf, i))
          /\ i' = i + 1
          /\ UNCHANGED << pc, stored, failure >>
  /\ UNCHANGED << caller, runs, env_url, retryVars, tdf, table, log >>

\* One turn of `for i in 0..df.height()` (84-128): the fields of row i are
\* taken out, a null ending the call, and the row's insert task is spawned;
\* after the last row the loop leaves for try_join_all.
Loop ==
  /\ pc = "loop"
  /\ IF i >= tdf.height
     THEN /\ pc' = "join"
          /\ UNCHANGED << i, tasks, stored, failure >>
     ELSE IF FirstNull(tdf, i) # 0
     THEN /\ stored' = "Err"
          /\ Fail("write", "Failed to get field")
          /\ UNCHANGED << i, tasks >>
     ELSE /\ tasks' = Append(tasks, NewTask(tdf, i))
          /\ i' = i + 1
          /\ UNCHANGED << pc, stored, failure >>
  /\ UNCHANGED << caller, runs, env_url, retryVars, tdf, table, log >>

\* Inserts awaited one after the other: a task starts only when the tasks
\* of the rows before it have finished.
TaskAcquireInOrder(t) ==
  /\ \A u \in 1..(t - 1) : Finished(tasks[u])
  /\ tasks[t].st = "spawned"
  /\ CanAcquire(tasks)
  /\ tasks' = [ tasks EXCEPT ![t].st = "executing" ]
  /\ UNCHANGED << pc, caller, runs, env_url, retryVars, tdf, i, stored, table,
                  log, failure >>

\* A spawned task gets a connection from the pool (.execute(&pool), 118).
TaskAcquire(t) ==
  /\ tasks[t].st = "spawned"
  /\ CanAcquire(tasks)
  /\ tasks' = [ tasks EXCEPT ![t].st = "executing" ]
  /\ UNCHANGED << pc, caller, runs, env_url, retryVars, tdf, i, stored, table,
                  log, failure >>

\* The INSERT of a task commits or is rejected; the task ends with that
\* result and its connection goes back to the pool (100-125).
TaskExecute(t) ==
  /\ tasks[t].st = "executing"
  /\ \E ok \in BOOLEAN :
       /\ tasks' = [ tasks EXCEPT ![t].st = "finished",
                                  ![t].result = IF ok THEN "Ok" ELSE "Err" ]
       /\ table' = Commit(table, tasks[t], runs, ok)
  /\ UNCHANGED << pc, caller, runs, env_url, retryVars, tdf, i, stored, log,
                  failure >>

\* try_join_all(tasks).await?; Ok(()) (131-132).
Join ==
  /\ pc = "join"
  /\ JoinReady(tasks)
  /\ stored' = JoinResult(tasks)
  /\ IF JoinResult(tasks) = "Ok"
     THEN pc' = "verify" /\ UNCHANGED failure
     ELSE Fail("write", "task failed")
  /\ UNCHANGED << caller, runs, env_url, retryVars, tdf, i, tasks, table, log >>

\* storage::get_first_5_rows(&pool).await? (main.rs 51, storage.rs 150-178):
\* the SELECT or the decoding of a row may fail.
Verify ==
  /\ pc = "verify"
  /\ log' = Append(log, "get_first_5_rows")
  /\ \E ok \in BOOLEAN :
       IF ok THEN pc' = "done" /\ UNCHANGED failure
       ELSE Fail("verify", "Failed to fetch rows from the database")
  /\ UNCHANGED << caller, runs, env_url, retryVars, tdf, storeVars, table >>

\* main returns, Ok(()) from "done" and the error from "failed"; the runtime
\* shuts down and the process ends.
ProcessExit ==
  /\ pc \in { "done", "failed" }
  /\ pc' = "exited"
  /\ tasks' = Cancel(tasks)
  /\ UNCHANGED << caller, runs, env_url, retryVars, tdf, i, stored, table, log,
                  failure >>

Next ==
  \/ MainStart
  \/ RunDbSetup
  \/ TestRetryIngest
  \/ IngestAttempt
  \/ Sleep
  \/ Clean
  \/ Normalize
  \/ Validate
  \/ CreatePool
  \/ Lookup
  \/ Loop
  \/ \E t \in DOMAIN tasks : TaskAcquire(t)
  \/ \E t \in DOMAIN tasks : TaskExecute(t)
  \/ Join
  \/ Verify
  \/ ProcessExit

Spec == Init /\ [][Next]_vars

TypeOK ==
  /\ pc \in { "idle", "setup", "ingest", "sleep", "returned", "clean", "normalize",
              "validate", "pool", "lookup", "loop", "join", "verify", "done",
              "failed", "exited" }
  /\ caller \in { "none", "main", "test" }
  /\ runs \in 0..MaxRuns
  /\ attempts \in 0..(MaxFailures + 1)
  /\ i \in 0..(PoolSize + ExtraRows)
  /\ Len(tasks) <= PoolSize + ExtraRows

\* ------------------------------------------------------------- properties
EveryInsertCompleted == \A t \in DOMAIN tasks : tasks[t].st = "finished"

SomeInsertFailed == \E t \in DOMAIN tasks : tasks[t].result = "Err"

Called(f) == \E k \in DOMAIN log : log[k] = f

\* The rows of the table that the current run's tasks wrote.
WrittenThisRun == SelectSeq(table, LAMBDA p : p.run = runs)

\* C1: when an insert issued by store_data has failed, store_data returns
\* an error; it never returns Ok(()) after a failed insert.
C1_InsertFailureIsReturned ==
  (stored # "pending" /\ SomeInsertFailed) => stored = "Err"

\* C2: store_data has not returned, with success or with failure, while an
\* insert task it spawned is still unfinished.
C2_ReturnsAfterEveryTask ==
  stored # "pending" => EveryInsertCompleted

\* C3: once every insert task of the call has completed, the rows the call
\* added to the table are exactly the rows whose own insert succeeded, each
\* once and with its own field values.
C3_RowsCommitIndependently ==
  EveryInsertCompleted =>
    /\ { p.row : p \in { WrittenThisRun[k] : k \in DOMAIN WrittenThisRun } } =
       { tasks[t].row : t \in { u \in DOMAIN tasks : tasks[u].result = "Ok" } }
    /\ Len(WrittenThisRun) =
       Cardinality({ t \in DOMAIN tasks : tasks[t].result = "Ok" })
    /\ \A k \in DOMAIN WrittenThisRun :
         \E t \in DOMAIN tasks :
           /\ tasks[t].row = WrittenThisRun[k].row
           /\ tasks[t].fields = WrittenThisRun[k].fields

\* Two rows, one insert rejected and one committed: one row is persisted.
C3_Witness ==
  /\ Len(tasks) = 2
  /\ EveryInsertCompleted
  /\ tasks[1].result = "Err"
  /\ tasks[2].result = "Ok"
  /\ Len(WrittenThisRun) = 1
  /\ WrittenThisRun[1].row = 1

\* C4: with max_attempts n >= 1 and a file whose every read fails,
\* retry_ingest makes exactly n calls of ingest_csv, never more, and returns
\* the error with the context "Max retry attempts reached".
C4_ExactlyNAttemptsThenError ==
  (max_attempts >= 1 /\ plan.permanent) =>
    /\ calls <= max_attempts
    /\ pc \in { "ingest", "sleep" } => calls < max_attempts
    /\ ret.kind # "Ok"
    /\ ret.kind = "Err" =>
         /\ calls = max_attempts
         /\ ret.context = "Max retry attempts reached"

C4_Witness ==
  /\ plan.permanent
  /\ max_attempts = 3
  /\ calls = 3
  /\ ret.kind = "Err"
  /\ ret.context = "Max retry attempts reached"

\* C5: with a file that fails exactly k < n reads and then succeeds,
\* retry_ingest(file, n) returns the DataFrame of read k+1 and calls
\* ingest_csv k+1 times in all.
C5_FirstSuccessReturned ==
  (~plan.permanent /\ plan.failsFirst < max_attempts) =>
    /\ calls <= plan.failsFirst + 1
    /\ ret.kind # "Err"
    /\ ret.kind = "Ok" => (calls = plan.failsFirst + 1 /\ df \in Stores)
    /\ pc \notin { "ingest", "sleep", "idle", "setup" } => ret.kind = "Ok"

C5_Witness ==
  /\ ~plan.permanent
  /\ plan.failsFirst = 2
  /\ max_attempts = 3
  /\ ret.kind = "Ok"
  /\ calls = 3
  /\ df \in Stores

\* C6: retry_ingest called with max_attempts = 0 calls ingest_csv zero
\* times and does not return a DataFrame.
C6_ZeroAttemptsNeverReads ==
  (caller = "test" /\ max_attempts = 0) => (calls = 0 /\ ret.kind # "Ok")

\* C7: main does not go on after a failed stage: once an insert of the write
\* stage has failed the verification read is never called, and main ends
\* in "done" only when every insert succeeded.
C7_NoProgressPastFailure ==
  /\ SomeInsertFailed => (~Called("get_first_5_rows") /\ pc # "done")
  /\ failure.stage # "" => pc \in { "failed", "exited" }

\* The order in which main calls the stages.
StageOrder ==
  << "run_db_setup", "retry_ingest", "clean_data", "normalize_data",
     "validate_data", "create_connection_pool", "store_data", "get_first_5_rows" >>

\* C8: the stages are called in the order ingest, transform, write, verify;
\* no insert task exists before validate_data has returned, and the
\* verification read is called only when every insert task has completed.
C8_StagesStrictlySequential ==
  /\ Len(log) <= Len(StageOrder)
  /\ \A k \in DOMAIN log : log[k] = StageOrder[k]
  /\ tasks # << >> => (Called("store_data") /\ pc \notin { "clean", "normalize", "validate" })
  /\ WrittenThisRun # << >> => Called("store_data")
  /\ Called("get_first_5_rows") => EveryInsertCompleted

C8_Witness ==
  /\ Called("get_first_5_rows")
  /\ Len(tasks) = 2
  /\ EveryInsertCompleted

\* C9: a persisted row is never updated or deleted: every step leaves the
\* rows already in the table in it.
C9_TableOnlyGrows ==
  [][ /\ Len(table) <= Len(table')
      /\ \A k \in DOMAIN table : table'[k] = table[k] ]_vars

\* C10: when clean succeeds, its output has no null in any column, every
\* null of the input being filled with the median of its column's non-null
\* values and every other cell kept.
C10_CleanFillsEveryColumn ==
  pc = "normalize" =>
    \A c \in DOMAIN tdf.cols : \A r \in DOMAIN tdf.cols[c].vals :
      /\ ~IsNull(tdf.cols[c].vals[r])
      /\ tdf.cols[c].vals[r] =
           IF IsNull(df.cols[c].vals[r]) THEN Median(df.cols[c].vals)
           ELSE df.cols[c].vals[r]

\* The least and the greatest non-null cell of a column.
ColMin(vals) == SortCells(vals)[1]

ColMax(vals) == SortCells(vals)[Len(SortCells(vals))]

NonDegenerate(vals) == SortCells(vals) # << >> /\ ColMin(vals) < ColMax(vals)

\* C11: after normalize every cell of every non-degenerate float column is
\* in [0, 1] (0..Scale units), the cells that held the column's minimum are
\* 0 and the cells that held its maximum are 1.
C11_NormalizedIntoUnitRange ==
  pc = "validate" =>
    LET in == clean_data(df).df
    IN \A c \in DOMAIN in.cols :
         (in.cols[c].dtype = "f64" /\ NonDegenerate(in.cols[c].vals)) =>
           \A r \in DOMAIN in.cols[c].vals :
             ~IsNull(in.cols[c].vals[r]) =>
               /\ ~IsNull(tdf.cols[c].vals[r])
               /\ Unwrap(tdf.cols[c].vals[r]) \in 0..Scale
               /\ Unwrap(in.cols[c].vals[r]) = ColMin(in.cols[c].vals)
                    => Unwrap(tdf.cols[c].vals[r]) = 0
               /\ Unwrap(in.cols[c].vals[r]) = ColMax(in.cols[c].vals)
                    => Unwrap(tdf.cols[c].vals[r]) = Scale

\* The frame has a negative cell in row r (1-based).
NegativeRow(d, r) ==
  \E c \in DOMAIN d.cols :
    ~IsNull(d.cols[c].vals[r]) /\ Unwrap(d.cols[c].vals[r]) < 0

\* C12: validate does not add rows, raises no error for a negative cell,
\* and leaves no negative cell in any column: the rows that held one are
\* gone from its output.
C12_ValidateDropsNegativeRows ==
  /\ pc = "pool" =>
       /\ tdf.height <= df.height
       /\ \A r \in 1..tdf.height : ~NegativeRow(tdf, r)
       /\ tdf.height = Cardinality({ r \in 1..df.height : ~NegativeRow(df, r) })
  /\ \A k \in DOMAIN log :
       (log[k] = "validate_data" /\ k = Len(log)) => failure.stage # "transform"

\* C13: transform_data runs clean, normalize, validate in this order, each
\* on the output of the one before; when a sub-stage fails it is the last
\* one called and its error is transform_data's.
C13_TransformStopsAtFirstFailure ==
  /\ \A k \in DOMAIN log :
       /\ log[k] = "normalize_data" => (k > 1 /\ log[k - 1] = "clean_data")
       /\ log[k] = "validate_data" => (k > 1 /\ log[k - 1] = "normalize_data")
  /\ pc = "normalize" => (clean_data(df).ok /\ tdf = clean_data(df).df)
  /\ pc = "validate" => tdf = normalize_data(clean_data(df).df).df
  /\ pc = "pool" => tdf = validate_data(normalize_data(clean_data(df).df).df).df
  /\ failure.stage = "transform" =>
       /\ log[Len(log)] \in { "clean_data", "normalize_data", "validate_data" }
       /\ log[Len(log)] = "clean_data" =>
            (~clean_data(df).ok /\ failure.err = clean_data(df).err)
       /\ log[Len(log)] = "normalize_data" =>
            (~normalize_data(tdf).ok /\ failure.err = normalize_data(tdf).err)
       /\ log[Len(log)] = "validate_data" =>
            (~validate_data(tdf).ok /\ failure.err = validate_data(tdf).err)

\* clean fails on a column without a non-null cell: normalize is not called.
C13_Witness ==
  /\ failure.stage = "transform"
  /\ failure.err = "Error calculating median"
  /\ log[Len(log)] = "clean_data"
  /\ ~Called("normalize_data")

\* C14: for the two-row sample file, ingest, transform and store_data on a
\* reachable pool that rejects no insert end with store_data returning Ok
\* and two persisted rows; store_data accepts the dtypes ingestion gave.
C14_SampleFileIsStored ==
  (caller = "main" /\ df = TestCsvStore) =>
    /\ stored # "Err"
    /\ (stored = "Ok" /\ ~SomeInsertFailed) => Len(WrittenThisRun) = 2

\* main about to call store_data on the file with more rows than the pool
\* has connections: the table was set up, the first read succeeded, the
\* frame went through transform_data and the pool was created.
PoolStart ==
  /\ pc = "lookup"
  /\ caller = "main"
  /\ runs = MaxRuns
  /\ env_url = TRUE
  /\ plan = NoPlan
  /\ max_attempts = MainMaxAttempts
  /\ attempts = 0
  /\ calls = 1
  /\ sleeps = 0
  /\ ret = RetOk
  /\ df = PoolStore
  /\ tdf = validate_data(normalize_data(clean_data(PoolStore).df).df).df
  /\ i = 0
  /\ tasks = << >>
  /\ stored = "pending"
  /\ table = << >>
  /\ log = SubSeq(StageOrder, 1, 6)
  /\ failure = NoFailure

\* The program from its start, or from store_data's call on the large file,
\* under the scheduling the runtime gives: the loop of store_data goes on, a
\* task waiting for a connection gets one when one is free, a statement
\* sent to the database is answered, and the join resolves when it can.
PoolSpec ==
  /\ Init \/ PoolStart
  /\ [][Next]_vars
  /\ WF_vars(Loop)
  /\ WF_vars(Join)
  /\ \A t \in 1..(PoolSize + ExtraRows) :
       WF_vars(t \in DOMAIN tasks /\ (TaskAcquire(t) \/ TaskExecute(t)))

NoNullCell(d) ==
  \A c \in DOMAIN d.cols : \A r \in DOMAIN d.cols[c].vals : ~IsNull(d.cols[c].vals[r])

\* C15: at every moment at most PoolSize insert tasks hold a connection, and
\* once store_data starts on a frame of N rows whose fields can all be
\* extracted, all N tasks come to be spawned, to get a connection and to
\* finish.
C15_PoolIsTheOnlyAdmissionControl ==
  /\ [](Cardinality({ t \in DOMAIN tasks : tasks[t].st = "executing" }) <= PoolSize)
  /\ (pc = "loop" /\ NoNullCell(tdf))
       ~> (Len(tasks) = tdf.height /\ EveryInsertCompleted)

\* Five tasks hold the five connections and a sixth waits for one.
C15_Witness ==
  /\ Cardinality({ t \in DOMAIN tasks : tasks[t].st = "executing" }) = PoolSize
  /\ \E t \in DOMAIN tasks : tasks[t].st = "spawned"

\* C16: clean leaves a frame without nulls as it is, and cleaning the output
\* of a successful clean again succeeds and changes nothing.
C16_CleanIdempotent ==
  pc = "normalize" =>
    /\ NoNullCell(df) => tdf = df
    /\ clean_data(tdf).ok
    /\ clean_data(tdf).df = tdf

C16_Witness ==
  /\ pc = "normalize"
  /\ NoNullCell(df)
  /\ df.height >= 2
  /\ tdf = df

NoNegativeCell(d) == \A r \in 1..d.height : ~NegativeRow(d, r)

Width(d) == Cardinality(DOMAIN d.cols)

BoundValues(d, r) ==
  [ k \in 1..Len(Columns) |->
      IF Columns[k] \in { "free sulfur dioxide", "total sulfur dioxide" }
      THEN Unwrap(d.cols[Columns[k]].vals[r + 1]) * Scale
      ELSE Unwrap(d.cols[Columns[k]].vals[r + 1]) ]

\* C18: the t-th task spawned is the task of row t-1 and carries that row's
\* twelve values; while the loop runs there is one task per row passed, and
\* once extraction has succeeded for all N rows there are exactly N tasks;
\* no row is written to the table twice.
C18_OneTaskPerRow ==
  /\ \A t \in DOMAIN tasks :
       /\ tasks[t].row = t - 1
       /\ tasks[t].fields = BoundValues(tdf, t - 1)
  /\ pc = "loop" => Len(tasks) = i
  /\ (pc = "join" \/ stored = "Ok") => Len(tasks) = tdf.height
  /\ \A k1, k2 \in DOMAIN WrittenThisRun :
       WrittenThisRun[k1].row = WrittenThisRun[k2].row => k1 = k2

C18_Witness ==
  /\ pc = "join"
  /\ tdf.height = 3
  /\ Len(tasks) = 3
  /\ \A t \in 1..3 : tasks[t].row = t - 1 /\ tasks[t].fields = BoundValues(tdf, t - 1)

\* The rows the current run wrote, in the order their inserts committed.
ArrivalOrder == [ k \in DOMAIN WrittenThisRun |-> WrittenThisRun[k].row ]

\* C19: store_data imposes no order on the inserts: a spawned task can take
\* a free connection and a task holding one can commit, whatever the tasks
\* of the other rows have done, so a later row can reach the table first.
C19_NoOrderAmongInserts ==
  \A t \in DOMAIN tasks :
    /\ (tasks[t].st = "spawned" /\
        Cardinality({ u \in DOMAIN tasks : tasks[u].st = "executing" }) < PoolSize)
         => ENABLED TaskAcquire(t)
    /\ tasks[t].st = "executing" => ENABLED TaskExecute(t)

\* Three rows that reached the table in the reverse of their source order.
C19_Witness ==
  /\ Len(tasks) = 3
  /\ ArrivalOrder = << 2, 1, 0 >>

\* C20: retry_ingest sleeps once between two consecutive attempts and at no
\* other time: before an attempt there are as many sleeps as attempts made,
\* a sleep is pending only after a failed attempt that is not the last, and
\* a call that returned after a attempts slept a-1 times.
C20_OneSleepBetweenAttempts ==
  /\ pc \in { "idle", "setup" } => (calls = 0 /\ sleeps = 0)
  /\ pc = "ingest" => sleeps = calls
  /\ pc = "sleep" =>
       (calls >= 1 /\ sleeps = calls - 1 /\ attempts = calls /\ attempts < max_attempts)
  /\ ret.kind # "pending" => (calls >= 1 /\ sleeps = calls - 1)

C20_Witness ==
  /\ ret.kind = "Ok"
  /\ calls = 3
  /\ sleeps = 2

\* Every one of the twelve columns is in the frame with the dtype store_data
\* asks of it.
SchemaFits(d) ==
  \A c \in ColumnSet : c \in DOMAIN d.cols /\ d.cols[c].dtype = DeclaredType(c)

\* Row r (0-based) of the frame has an empty cell.
RowHasNull(d, r) == \E c \in DOMAIN d.cols : d.cols[c].vals[r + 1] = None

\* C21: an insert task for row i exists only when all twelve columns were
\* found with their declared types and no row 0..i has a null field; when a
\* column is missing or wrongly typed store_data fails with no insert task
\* spawned and no row written; when the first row with a null field is row n
\* it fails with the tasks of exactly rows 0..n-1; it gets past the loop
\* only when no row has a null field.
C21_InsertsFollowLookupsAndExtraction ==
  /\ \A t \in DOMAIN tasks :
       /\ SchemaFits(tdf)
       /\ \A r \in 0..tasks[t].row : ~RowHasNull(tdf, r)
  /\ (stored = "Err" /\ ~SchemaFits(tdf)) =>
       (tasks = << >> /\ WrittenThisRun = << >>)
  /\ (stored = "Err" /\ SchemaFits(tdf)) =>
       \E n \in 0..(tdf.height - 1) :
         /\ RowHasNull(tdf, n)
         /\ \A r \in 0..(n - 1) : ~RowHasNull(tdf, r)
         /\ Len(tasks) = n
         /\ \A t \in DOMAIN tasks : tasks[t].row = t - 1
         /\ \A k \in DOMAIN WrittenThisRun : WrittenThisRun[k].row < n
  /\ (pc \in { "join", "verify", "done" } \/ stored = "Ok") =>
       (SchemaFits(tdf) /\ \A r \in 0..(tdf.height - 1) : ~RowHasNull(tdf, r))
  /\ (caller = "main" /\ Called("store_data") /\ ~SchemaFits(tdf)) => stored = "Err"

\* The third row has the first null field: store_data has failed with the
\* insert tasks of the first two rows spawned, one of them committed.
C21_Witness ==
  /\ stored = "Err"
  /\ SchemaFits(tdf)
  /\ tdf.height = 3
  /\ RowHasNull(tdf, 2)
  /\ Len(tasks) = 2
  /\ Len(WrittenThisRun) = 1

\* retry_ingest as it runs: a call of ingest_csv returns and a sleep of one
\* second ends, so the loop's next step is always taken.
RetrySpec ==
  /\ Init
  /\ [][Next]_vars
  /\ WF_vars(IngestAttempt)
  /\ WF_vars(Sleep)

\* max(1, max_attempts)
MostCalls == IF max_attempts > 1 THEN max_attempts ELSE 1

====
